---- MODULE Spec2Model ----
(***************************************************************************)
(* A model of app.py: the Flask handlers /get_video_info, /download,       *)
(* /progress/<id> and /download_file/<id>, the shared dictionary           *)
(* download_progress, and the background threads running download_video.   *)
(*                                                                         *)
(* Python values are modelled as follows.                                   *)
(*   - a dict is a function from its keys (strings) to its values;          *)
(*   - None is the reserved string None below, equal to no URL or token;    *)
(*   - a progress percentage is an integer number of TENTHS of a percent    *)
(*     (round(x, 1) and yt-dlp's "%.1f%%" strings have one decimal), so     *)
(*     the Python value 100 is 1000 here;                                   *)
(*   - a file path is the sequence of its components;                       *)
(*   - a percentage string is the sequence of its characters.               *)
(* A thread switch may happen between any two statements of a worker that   *)
(* touch download_progress, so each such statement is one action.  A        *)
(* request handler is one action: jsonify serialises the record it was      *)
(* handed from sorted(dict.items()), one snapshot taken under the           *)
(* interpreter lock.  The variable response is the HTTP response a handler  *)
(* has produced and the server is sending; the step that follows completes  *)
(* the sending, so that in a state whose response is a handler's the other  *)
(* variables are the ones the handler saw and left.                          *)
(***************************************************************************)
EXTENDS Integers, Sequences, FiniteSets, TLC

\* ---------------------------------------------------------------- bounds
\* milliseconds the clock may advance after the process starts
MaxClock == 1
\* /download requests accepted (threads started) in one run of Spec
MaxThreads == 1
\* /download requests accepted in one run of SpecRace
MaxRacing == 2

\* the longest list of stream descriptors the collaborator returns to the
\* format catalog of app.py:80-95
MaxFormats == 4

VARIABLES
    now,                \* time.time() * 1000, truncated: the clock in ms
    download_progress,  \* app.py:16, the shared dict  id -> record
    threads,            \* the threads started by /download, in start order
    disk,               \* the paths that exist under DOWNLOAD_FOLDER
    response,           \* the HTTP response being sent, NoResponse if none is
    extract_info        \* app.py:78, the metadata the collaborator returned to
                        \* the handler whose response is being sent

vars == <<now, download_progress, threads, disk, response, extract_info>>

\* ------------------------------------------------------- Python semantics
None == "<None>"

\* dict.get(k, default)
DictGet(d, k, default) == IF k \in DOMAIN d THEN d[k] ELSE default

\* d[k] = v
SetItem(d, k, v) == (k :> v) @@ d

EmptyDict == [k \in {} |-> None]

\* Python truthiness of a str-or-None value, as in "if not url"
Truthy(v) == v # None /\ v # ""

Digit(n) == CASE n = 0 -> "0" [] n = 1 -> "1" [] n = 2 -> "2" [] n = 3 -> "3"
              [] n = 4 -> "4" [] n = 5 -> "5" [] n = 6 -> "6" [] n = 7 -> "7"
              [] n = 8 -> "8" [] n = 9 -> "9"

\* str(n) for an int n >= 0: its decimal digits
RECURSIVE str(_)
str(n) == IF n < 10 THEN Digit(n) ELSE str(n \div 10) \o Digit(n % 10)

\* os.path.join(folder, name) and os.path.basename(path)
DOWNLOAD_FOLDER == <<"tmp">>

join(folder, name) == Append(folder, name)

basename(path) == IF Len(path) = 0 THEN "" ELSE path[Len(path)]

\* ------------------------------------------------- float() and round()
Digits == {"0", "1", "2", "3", "4", "5", "6", "7", "8", "9"}

DigitVal(c) == CASE c = "0" -> 0 [] c = "1" -> 1 [] c = "2" -> 2 [] c = "3" -> 3
                 [] c = "4" -> 4 [] c = "5" -> 5 [] c = "6" -> 6 [] c = "7" -> 7
                 [] c = "8" -> 8 [] c = "9" -> 9

\* s.replace(c, '')
replace(s, c) == SelectSeq(s, LAMBDA x : x # c)

\* s.strip(), which float() applies to its argument
RECURSIVE lstrip(_)
lstrip(s) == IF Len(s) > 0 /\ Head(s) = " " THEN lstrip(Tail(s)) ELSE s

RECURSIVE rstrip(_)
rstrip(s) == IF Len(s) > 0 /\ s[Len(s)] = " " THEN rstrip(SubSeq(s, 1, Len(s) - 1)) ELSE s

strip(s) == rstrip(lstrip(s))

\* the value of a sequence of decimal digits
RECURSIVE DecVal(_)
DecVal(ds) == IF Len(ds) = 0 THEN 0
              ELSE 10 * DecVal(SubSeq(ds, 1, Len(ds) - 1)) + DigitVal(ds[Len(ds)])

AllDigits(ds) == \A i \in DOMAIN ds : ds[i] \in Digits

\* the position of the first "." of s, or Len(s) + 1
RECURSIVE DotAt(_, _)
DotAt(s, i) == IF i > Len(s) \/ s[i] = "." THEN i ELSE DotAt(s, i + 1)

\* float(s) for the decimal notation [sign] digits [. digits]; ok is FALSE
\* where float() raises ValueError.  The value is in tenths and exact for a
\* string with at most one fractional digit, which is what "%.1f" produces.
float(s) ==
    LET t == strip(s)
        signed == Len(t) > 0 /\ Head(t) \in {"+", "-"}
        u == IF signed THEN Tail(t) ELSE t
        dot == DotAt(u, 1)
        ip == SubSeq(u, 1, dot - 1)
        fp == SubSeq(u, dot + 1, Len(u))
        ok == /\ Len(ip) + Len(fp) > 0
              /\ AllDigits(ip)
              /\ AllDigits(fp)
        mag == 10 * DecVal(ip) + (IF Len(fp) > 0 THEN DigitVal(fp[1]) ELSE 0)
    IN  IF ~ok THEN [ok |-> FALSE, value |-> 0]
        ELSE [ok |-> TRUE, value |-> IF signed /\ Head(t) = "-" THEN 0 - mag ELSE mag]

\* the ratio of app.py:27 with its operands exchanged
percent_inverted(downloaded, total) ==
    (2000 * total + downloaded) \div (2 * downloaded)

\* round((downloaded / total) * 100, 1), in tenths, for downloaded >= 0 and
\* total > 0: the nearest tenth (no tie arises for a total below 16)
percent_rounded(downloaded, total) == (2000 * downloaded + total) \div (2 * total)

\* the value Python's 100 (app.py:36) has in tenths
Hundred == 1000

\* ------------------------------------------------ the collaborator (yt-dlp)
\* the error messages str(e) the collaborator's exceptions carry
ErrorMessages == {"no matching format"}

\* the videos the collaborator resolves, and the title it reports for each
Title(url) == IF url = "u1" THEN "a" ELSE "b"

\* outtmpl (app.py:49) expanded by the collaborator: the selector admits
\* only streams with ext = mp4
outtmpl(url) == join(DOWNLOAD_FOLDER, Title(url) \o "." \o "mp4")

\* what a 'downloading' event may carry; every field is optional, and a
\* total_bytes of 0 stands for any falsy value (yt-dlp puts None)
ByteCounts == {1, 3}

TotalSizes == {0, 2}

PercentStrs == { <<" ", "5", "0", ".", "0", "%">>,
                 <<"1", "5", "0", ".", "0", "%">>,
                 <<"N", "/", "A">> }

OptionalField(k, values) == {EmptyDict} \cup {k :> v : v \in values}

DownloadingEvents ==
    { ("status" :> "downloading") @@ a @@ b @@ c :
        a \in OptionalField("downloaded_bytes", ByteCounts),
        b \in OptionalField("total_bytes", TotalSizes),
        c \in OptionalField("_percent_str", PercentStrs) }

FinishedEvent(url) == [status |-> "finished", filename |-> outtmpl(url)]

\* ------------------------------------------------------- download_video
\* the urls and quality tokens clients post
PostedUrls == {"", "u1"}

PostedQualities == {"720"}

\* app.py:21, the record a worker stores when it starts
InitialRecord == [status |-> "downloading", progress |-> 0, filename |-> ""]

\* progress_hook as it would be without the try/except of app.py:30-33:
\* the ValueError of float() leaves the hook
hook_downloading_strict(dp, download_id, d) ==
    IF "total_bytes" \in DOMAIN d /\ d["total_bytes"] # 0
    THEN IF "downloaded_bytes" \notin DOMAIN d
         THEN [raised |-> "'downloaded_bytes'", dp |-> dp]
         ELSE [raised |-> None,
               dp |-> SetItem(dp, download_id,
                        SetItem(dp[download_id], "progress",
                            percent_rounded(d["downloaded_bytes"], d["total_bytes"])))]
    ELSE IF "_percent_str" \in DOMAIN d
         THEN LET percent_str == replace(d["_percent_str"], "%")
                  parsed == float(percent_str)
              IN  IF parsed.ok
                  THEN [raised |-> None,
                        dp |-> SetItem(dp, download_id,
                                 SetItem(dp[download_id], "progress", parsed.value))]
                  ELSE [raised |-> "could not convert string to float", dp |-> dp]
         ELSE [raised |-> None, dp |-> dp]

\* app.py:24-33, progress_hook on a 'downloading' event: the registry after
\* it, and the exception it raises (None when it returns normally)
hook_downloading(dp, download_id, d) ==
    IF "total_bytes" \in DOMAIN d /\ d["total_bytes"] # 0
    THEN IF "downloaded_bytes" \notin DOMAIN d
         THEN [raised |-> "'downloaded_bytes'", dp |-> dp]
         ELSE [raised |-> None,
               dp |-> SetItem(dp, download_id,
                        SetItem(dp[download_id], "progress",
                            percent_rounded(d["downloaded_bytes"], d["total_bytes"])))]
    ELSE IF "_percent_str" \in DOMAIN d
         THEN LET percent_str == replace(d["_percent_str"], "%")
                  parsed == float(percent_str)
              IN  IF parsed.ok
                  THEN [raised |-> None,
                        dp |-> SetItem(dp, download_id,
                                 SetItem(dp[download_id], "progress", parsed.value))]
                  ELSE [raised |-> None, dp |-> dp]
         ELSE [raised |-> None, dp |-> dp]

\* the selector as it would be if a height were not restricted to the
\* target container
format_selector_any_container(quality) ==
    IF quality = "best" THEN "best[ext=mp4]"
    ELSE IF quality = "worst" THEN "worst[ext=mp4]"
    ELSE "best[height<=" \o quality \o "]"

\* app.py:40-45
format_selector(quality) ==
    IF quality = "best" THEN "best[ext=mp4]"
    ELSE IF quality = "worst" THEN "worst[ext=mp4]"
    ELSE "best[height<=" \o quality \o "][ext=mp4]"

\* no handler holds metadata
NoInfo == EmptyDict

\* no response is being sent
NoResponse == [route |-> "none", arg |-> None, code |-> 0, body |-> EmptyDict]

\* thread t is at statement pc
At(t, pc) == t \in DOMAIN threads /\ threads[t].pc = pc

Goto(t, pc, d) == [threads EXCEPT ![t].pc = pc, ![t].d = d]

\* app.py:21, and app.py:40-51, which touch no shared state and leave the
\* thread about to call the collaborator with ydl_opts['format']
worker_start(t) ==
    /\ At(t, "l21")
    /\ download_progress' = SetItem(download_progress, threads[t].download_id, InitialRecord)
    /\ threads' = [threads EXCEPT ![t].pc = "l53",
                                  ![t].format = format_selector(threads[t].quality)]
    /\ UNCHANGED <<now, disk, response, extract_info>>

\* app.py:53-54, the collaborator takes ydl_opts and the url: quality was
\* last read at app.py:45 and the options are the collaborator's from here
\* on, so the thread's record keeps neither
collaborator_called(t) ==
    /\ At(t, "l53")
    /\ threads' = [threads EXCEPT ![t].pc = "call", ![t].quality = None, ![t].format = None]
    /\ UNCHANGED <<now, download_progress, disk, response, extract_info>>

\* app.py:54 calling progress_hook with a 'downloading' event, app.py:24-33
event_downloading(t, d) ==
    /\ At(t, "call")
    /\ LET r == hook_downloading(download_progress, threads[t].download_id, d)
       IN  /\ download_progress' = r.dp
           /\ threads' = IF r.raised = None THEN threads
                         ELSE [threads EXCEPT ![t].pc = "l57", ![t].e = r.raised]
    /\ UNCHANGED <<now, disk, response, extract_info>>

\* app.py:54 having written the file and calling progress_hook with a
\* 'finished' event; app.py:35
event_finished(t) ==
    /\ At(t, "call")
    /\ LET d == FinishedEvent(threads[t].url)
           id == threads[t].download_id
       IN  /\ disk' = disk \cup {d["filename"]}
           /\ download_progress' = SetItem(download_progress, id,
                                      SetItem(download_progress[id], "status", "completed"))
           /\ threads' = Goto(t, "l36", d)
    /\ UNCHANGED <<now, response, extract_info>>

\* app.py:36
hook_progress(t) ==
    /\ At(t, "l36")
    /\ LET id == threads[t].download_id
       IN  download_progress' = SetItem(download_progress, id,
                                   SetItem(download_progress[id], "progress", Hundred))
    /\ threads' = [threads EXCEPT ![t].pc = "l37"]
    /\ UNCHANGED <<now, disk, response, extract_info>>

\* app.py:37, after which the hook returns into the collaborator
hook_filename(t) ==
    /\ At(t, "l37")
    /\ LET id == threads[t].download_id
       IN  download_progress' = SetItem(download_progress, id,
                                   SetItem(download_progress[id], "filename",
                                       basename(threads[t].d["filename"])))
    /\ threads' = Goto(t, "call", EmptyDict)
    /\ UNCHANGED <<now, disk, response, extract_info>>

\* app.py:54 raising
collaborator_raises(t, msg) ==
    /\ At(t, "call")
    /\ threads' = [threads EXCEPT ![t].pc = "l57", ![t].e = msg]
    /\ UNCHANGED <<now, download_progress, disk, response, extract_info>>

\* app.py:54 returning normally: the thread ends
collaborator_returns(t) ==
    /\ At(t, "call")
    /\ threads' = [threads EXCEPT ![t].pc = "done"]
    /\ UNCHANGED <<now, download_progress, disk, response, extract_info>>

\* app.py:57; with no record under the id the subscript raises KeyError out
\* of the handler and the thread dies
except_status(t) ==
    /\ At(t, "l57")
    /\ LET id == threads[t].download_id
       IN  IF id \in DOMAIN download_progress
           THEN /\ download_progress' = SetItem(download_progress, id,
                                           SetItem(download_progress[id], "status", "error"))
                /\ threads' = [threads EXCEPT ![t].pc = "l58"]
           ELSE /\ download_progress' = download_progress
                /\ threads' = [threads EXCEPT ![t].pc = "died"]
    /\ UNCHANGED <<now, disk, response, extract_info>>

\* app.py:58
except_error(t) ==
    /\ At(t, "l58")
    /\ LET id == threads[t].download_id
       IN  download_progress' = SetItem(download_progress, id,
                                   SetItem(download_progress[id], "error", threads[t].e))
    /\ threads' = [threads EXCEPT ![t].pc = "done", ![t].e = None]
    /\ UNCHANGED <<now, disk, response, extract_info>>

\* ------------------------------------------------------ request handlers
Response(route, arg, code, body) ==
    [route |-> route, arg |-> arg, code |-> code, body |-> body]

\* the JSON bodies a client may post: url and quality are both optional
Bodies == { a @@ b : a \in OptionalField("url", PostedUrls),
                     b \in OptionalField("quality", PostedQualities) }

\* the metadata the collaborator may return for a video: 'formats' may be
\* missing, and a descriptor's height may be (an absent height stands for
\* any falsy one; yt-dlp puts None for audio-only streams)
SampleFormats == << [ext |-> "mp4", height |-> 480], [ext |-> "webm", height |-> 720],
                    [ext |-> "mp4"], [ext |-> "mp4", height |-> 720],
                    [ext |-> "mp4", height |-> 480] >>

Infos(url) ==
    { [title |-> Title(url)],
      [title |-> Title(url), formats |-> <<>>],
      [title |-> Title(url), formats |-> SampleFormats] }

\* app.py:81-92, the loop from descriptor i on
RECURSIVE collect_formats(_, _, _, _)
collect_formats(fs, i, formats, seen_heights) ==
    IF i > Len(fs) THEN formats
    ELSE LET f == fs[i]
             height == DictGet(f, "height", 0)
         IN  IF DictGet(f, "ext", None) = "mp4" /\ height # 0 /\ height \notin seen_heights
             THEN collect_formats(fs, i + 1,
                      Append(formats, [height |-> height, quality |-> str(height) \o "p"]),
                      seen_heights \cup {height})
             ELSE collect_formats(fs, i + 1, formats, seen_heights)

\* list.sort(key=height, reverse=True): a stable sort, largest height first
RECURSIVE sort_reverse(_)
sort_reverse(l) ==
    IF Len(l) = 0 THEN <<>>
    ELSE LET top == CHOOSE i \in DOMAIN l :
                      /\ \A j \in DOMAIN l : l[j].height <= l[i].height
                      /\ \A j \in 1..(i - 1) : l[j].height < l[i].height
         IN  <<l[top]>> \o sort_reverse(SubSeq(l, 1, top - 1) \o SubSeq(l, top + 1, Len(l)))

\* the catalog as it would be without the sort of app.py:95
available_formats_unsorted(info) ==
    collect_formats(DictGet(info, "formats", <<>>), 1, <<>>, {})

\* app.py:80-95
available_formats(info) ==
    sort_reverse(collect_formats(DictGet(info, "formats", <<>>), 1, <<>>, {}))

InfoBodies == OptionalField("url", PostedUrls)

\* get_video_info as it would be if it kept a record of each lookup in the
\* registry
get_video_info_recording(data, raises, outcome) ==
    /\ response' = Response("get_video_info", DictGet(data, "url", None), 200, EmptyDict)
    /\ download_progress' = SetItem(download_progress, str(now), InitialRecord)
    /\ UNCHANGED <<now, threads, disk, extract_info>>

\* app.py:64-106; outcome is what the collaborator does with the url: it
\* raises (an error message) or returns metadata (a dict)
get_video_info(data, raises, outcome) ==
    /\ LET url == DictGet(data, "url", None)
       IN  response' =
             IF ~Truthy(url)
             THEN Response("get_video_info", url, 400, [error |-> "URL is required"])
             ELSE IF raises
             THEN Response("get_video_info", url, 400, [error |-> outcome])
             ELSE Response("get_video_info", url, 200,
                           [title |-> DictGet(outcome, "title", "Unknown"),
                            duration |-> DictGet(outcome, "duration", 0),
                            thumbnail |-> DictGet(outcome, "thumbnail", ""),
                            uploader |-> DictGet(outcome, "uploader", "Unknown"),
                            formats |-> available_formats(outcome)])
    /\ extract_info' = IF Truthy(DictGet(data, "url", None)) /\ ~raises THEN outcome ELSE NoInfo
    /\ UNCHANGED <<now, download_progress, threads, disk>>

\* download as it would be without the check of app.py:116-117
download_unchecked(data) ==
    LET url == DictGet(data, "url", None)
        download_id == str(now)
    IN  /\ threads' = Append(threads,
                         [url |-> url, quality |-> DictGet(data, "quality", "best"),
                          download_id |-> download_id,
                          pc |-> "l21", format |-> None, d |-> EmptyDict, e |-> None])
        /\ response' = Response("download", url, 200, [download_id |-> download_id])
        /\ UNCHANGED <<now, download_progress, disk, extract_info>>

\* app.py:108-130
download(data) ==
    LET url == DictGet(data, "url", None)
        quality == DictGet(data, "quality", "best")
        download_id == str(now)
    IN  IF ~Truthy(url)
        THEN /\ response' = Response("download", url, 400, [error |-> "URL is required"])
             /\ UNCHANGED <<now, download_progress, threads, disk, extract_info>>
        ELSE /\ threads' = Append(threads,
                              [url |-> url, quality |-> quality, download_id |-> download_id,
                               pc |-> "l21", format |-> None, d |-> EmptyDict, e |-> None])
             /\ response' = Response("download", url, 200, [download_id |-> download_id])
             /\ UNCHANGED <<now, download_progress, disk, extract_info>>

\* get_progress as it would be with download_progress[download_id] in
\* place of .get(): KeyError for an unknown id, answered with HTTP 500
get_progress_subscript(download_id) ==
    /\ response' = IF download_id \in DOMAIN download_progress
                   THEN Response("progress", download_id, 200, download_progress[download_id])
                   ELSE Response("progress", download_id, 500, [error |-> "KeyError"])
    /\ UNCHANGED <<now, download_progress, threads, disk, extract_info>>

\* app.py:132-136
get_progress(download_id) ==
    /\ LET progress == DictGet(download_progress, download_id, [status |-> "not_found"])
       IN  response' = Response("progress", download_id, 200, progress)
    /\ UNCHANGED <<now, download_progress, threads, disk, extract_info>>

\* download_file as it would be with .setdefault() in place of .get() at
\* app.py:141
download_file_setdefault(download_id) ==
    /\ response' = Response("download_file", download_id, 404, [error |-> "File not ready"])
    /\ download_progress' = IF download_id \in DOMAIN download_progress THEN download_progress
                            ELSE SetItem(download_progress, download_id, EmptyDict)
    /\ UNCHANGED <<now, threads, disk, extract_info>>

\* download_file as it would be without the status test of app.py:142
download_file_any_status(download_id) ==
    /\ LET progress == DictGet(download_progress, download_id, EmptyDict)
           filename == DictGet(progress, "filename", None)
           filepath == join(DOWNLOAD_FOLDER, filename)
       IN  response' =
             IF DOMAIN progress = {} \/ ~Truthy(filename) \/ filepath \notin disk
             THEN Response("download_file", download_id, 404, [error |-> "File not found"])
             ELSE Response("download_file", download_id, 200,
                           [file |-> filepath, download_name |-> filename])
    /\ UNCHANGED <<now, download_progress, threads, disk, extract_info>>

\* download_file as it would be if it dropped the record of a file once it
\* has served it
download_file_pop(download_id) ==
    LET progress == DictGet(download_progress, download_id, EmptyDict)
        filename == DictGet(progress, "filename", None)
        filepath == join(DOWNLOAD_FOLDER, filename)
        served == /\ DictGet(progress, "status", None) = "completed"
                  /\ Truthy(filename)
                  /\ filepath \in disk
    IN  /\ response' =
             IF DOMAIN progress = {} \/ DictGet(progress, "status", None) # "completed"
             THEN Response("download_file", download_id, 404, [error |-> "File not ready"])
             ELSE IF ~served
             THEN Response("download_file", download_id, 404, [error |-> "File not found"])
             ELSE Response("download_file", download_id, 200,
                           [file |-> filepath, download_name |-> filename])
        /\ download_progress' =
             IF served
             THEN [id \in DOMAIN download_progress \ {download_id} |-> download_progress[id]]
             ELSE download_progress
        /\ UNCHANGED <<now, threads, disk, extract_info>>

\* app.py:138-153
download_file(download_id) ==
    /\ LET progress == DictGet(download_progress, download_id, EmptyDict)
           filename == DictGet(progress, "filename", None)
           filepath == join(DOWNLOAD_FOLDER, filename)
       IN  response' =
             IF DOMAIN progress = {} \/ DictGet(progress, "status", None) # "completed"
             THEN Response("download_file", download_id, 404, [error |-> "File not ready"])
             ELSE IF ~Truthy(filename)
             THEN Response("download_file", download_id, 404, [error |-> "File not found"])
             ELSE IF filepath \notin disk
             THEN Response("download_file", download_id, 404, [error |-> "File not found"])
             ELSE Response("download_file", download_id, 200,
                           [file |-> filepath, download_name |-> filename])
    /\ UNCHANGED <<now, download_progress, threads, disk, extract_info>>

\* time passes
tick ==
    /\ now < MaxClock
    /\ now' = now + 1
    /\ UNCHANGED <<download_progress, threads, disk, response, extract_info>>

\* a file of the temporary directory is deleted from outside the process
\* (the case app.py:150 tests for)
remove_file(path) ==
    /\ path \in disk
    /\ disk' = disk \ {path}
    /\ UNCHANGED <<now, download_progress, threads, response, extract_info>>

\* the ids a client may ask about: every id the clock can produce, and one
\* that is no clock value
PolledIds == {str(n) : n \in 0..MaxClock} \cup {"x"}

\* ------------------------------------------------------------ the system
Init ==
    /\ now = 0
    /\ download_progress = EmptyDict
    /\ threads = <<>>
    /\ disk = {}
    /\ response = NoResponse
    /\ extract_info = NoInfo

\* the response has gone out to the client
sent ==
    /\ response # NoResponse
    /\ response' = NoResponse
    /\ extract_info' = NoInfo
    /\ UNCHANGED <<now, download_progress, threads, disk>>

\* a handler or a worker statement runs once the response before it is out
Idle == response = NoResponse

\* the steps of a process in which clients post the given bodies to
\* /download and at most limit of these requests are accepted (a request
\* that is rejected is always possible)
Step(limit, bodies) ==
    \/ sent
    \/ \E data \in bodies :
          /\ Idle
          /\ Truthy(DictGet(data, "url", None)) => Len(threads) < limit
          /\ download(data)
    \/ \E data \in InfoBodies, msg \in ErrorMessages :
          Idle /\ get_video_info(data, TRUE, msg)
    \/ \E data \in InfoBodies : \E info \in Infos(DictGet(data, "url", None)) :
          Idle /\ get_video_info(data, FALSE, info)
    \/ \E id \in PolledIds : Idle /\ get_progress(id)
    \/ \E id \in PolledIds : Idle /\ download_file(id)
    \/ \E t \in DOMAIN threads : Idle /\ worker_start(t)
    \/ \E t \in DOMAIN threads : Idle /\ collaborator_called(t)
    \/ \E t \in DOMAIN threads, d \in DownloadingEvents : Idle /\ event_downloading(t, d)
    \/ \E t \in DOMAIN threads : Idle /\ event_finished(t)
    \/ \E t \in DOMAIN threads : Idle /\ hook_progress(t)
    \/ \E t \in DOMAIN threads : Idle /\ hook_filename(t)
    \/ \E t \in DOMAIN threads, msg \in ErrorMessages : Idle /\ collaborator_raises(t, msg)
    \/ \E t \in DOMAIN threads : Idle /\ collaborator_returns(t)
    \/ \E t \in DOMAIN threads : Idle /\ except_status(t)
    \/ \E t \in DOMAIN threads : Idle /\ except_error(t)
    \/ \E path \in disk : Idle /\ remove_file(path)
    \/ Idle /\ tick

Next == Step(MaxThreads, Bodies)

Spec == Init /\ [][Next]_vars

NextRace == Step(MaxRacing, Bodies)

SpecRace == Init /\ [][NextRace]_vars

\* ---- the format catalog of app.py:80-95 over every short list of
\* descriptors: container and height are both optional
Exts == {"mp4", "webm"}

Heights == {480, 720, 1080}

Descriptors == { a @@ b : a \in OptionalField("ext", Exts),
                          b \in OptionalField("height", Heights) }

ListsUpTo(S, n) == UNION { [1..k -> S] : k \in 0..n }

ResolverInfos ==
    { [title |-> Title("u1")] } \cup
    { [title |-> Title("u1"), formats |-> fs] : fs \in ListsUpTo(Descriptors, MaxFormats) }

NextResolver ==
    \/ sent
    \/ Idle /\ \E info \in ResolverInfos : get_video_info([url |-> "u1"], FALSE, info)

SpecResolver == Init /\ [][NextResolver]_vars

\* ---- the quality selector of app.py:40-45 over the tokens a client may
\* post: the two keywords, heights the video has or has not, and a token
\* that is no height
SelectorQualities == {"best", "worst", "720", "4320", "hd"}

SelectorBodies == { a @@ b : a \in OptionalField("url", PostedUrls),
                             b \in OptionalField("quality", SelectorQualities) }

NextSelector == Step(MaxThreads, SelectorBodies)

SpecSelector == Init /\ [][NextSelector]_vars

\* ---------------------------------------------------------------- claims
\* the ids /download has answered with, in the order of the requests
Issued == [t \in DOMAIN threads |-> threads[t].download_id]

\* C1: no two accepted /download requests are answered with the same
\* download_id, also when both are handled in the same millisecond.
C1_IdsNeverReissued ==
    \A i, j \in DOMAIN Issued : i # j => Issued[i] # Issued[j]

\* C2: when /download answers with a download_id the registry already holds
\* a record for it, pending with progress 0, and a /progress request for an
\* id that /download has answered with is never answered not_found.
C2_RecordCreatedByRequest ==
    /\ (response.route = "download" /\ response.code = 200) =>
          LET id == response.body.download_id
          IN  /\ id \in DOMAIN download_progress
              /\ download_progress[id].status = "pending"
              /\ download_progress[id].progress = 0
    /\ (response.route = "progress" /\ \E t \in DOMAIN Issued : Issued[t] = response.arg) =>
          response.body.status # "not_found"

\* C3: no /progress answer shows status completed with an empty or missing
\* filename, however the poll interleaves with the job's worker.
C3_NoCompletedWithoutFilename ==
    (response.route = "progress" /\ response.body.status = "completed") =>
        /\ "filename" \in DOMAIN response.body
        /\ response.body.filename # ""

\* a worker is in the middle of the statements that write a terminal status
\* (app.py:35-37, app.py:57-58) to the record of id
Writing(id) ==
    \E t \in DOMAIN threads :
        threads[t].download_id = id /\ threads[t].pc \in {"l36", "l37", "l58"}

Terminal(id) ==
    /\ id \in DOMAIN download_progress
    /\ download_progress[id].status \in {"completed", "error"}
    /\ ~Writing(id)

\* C4: once a record is completed or error (and the statements that made it
\* so have all run), no later event or exception changes its status,
\* progress or filename.
C4_TerminalAbsorbing ==
    [][\A id \in DOMAIN download_progress :
          Terminal(id) =>
            /\ download_progress'[id].status = download_progress[id].status
            /\ download_progress'[id].progress = download_progress[id].progress
            /\ download_progress'[id].filename = download_progress[id].filename]_vars

\* C5: the progress of every record is between 0 and 100 in every state.
C5_ProgressInRange ==
    \A id \in DOMAIN download_progress :
        /\ download_progress[id].progress >= 0
        /\ download_progress[id].progress <= Hundred

\* C6: /progress for an id with no record answers HTTP 200 with exactly
\* {status: not_found}.
C6_UnknownIdNotFound ==
    (response.route = "progress" /\ response.arg \notin DOMAIN download_progress) =>
        /\ response.code = 200
        /\ response.body = [status |-> "not_found"]

C6_Witness ==
    /\ response.route = "progress"
    /\ response.arg \notin DOMAIN download_progress
    /\ download_progress # EmptyDict

\* C7: a step that answers /progress or /download_file leaves the registry
\* as it was: no record inserted, no field changed.
C7_ReadsLeaveRegistry ==
    [][response'.route \in {"progress", "download_file"} =>
          download_progress' = download_progress]_vars

C7_Witness ==
    /\ response.route = "download_file"
    /\ response.arg \notin DOMAIN download_progress
    /\ \E id \in DOMAIN download_progress : download_progress[id].status = "downloading"

\* the file /download_file may serve for id: the record exists, is completed,
\* names a file, and the file is in the download folder
Servable(id) ==
    /\ id \in DOMAIN download_progress
    /\ download_progress[id].status = "completed"
    /\ download_progress[id].filename # ""
    /\ join(DOWNLOAD_FOLDER, download_progress[id].filename) \in disk

\* C8: /download_file answers with the file (HTTP 200) exactly when the
\* record exists, is completed, has a non-empty filename and the file
\* exists; in every other case it answers 404.
C8_FileIffCompletedAndPresent ==
    response.route = "download_file" =>
        /\ response.code = 200 <=> Servable(response.arg)
        /\ response.code # 200 => response.code = 404
        /\ response.code = 200 =>
              response.body.file =
                join(DOWNLOAD_FOLDER, download_progress[response.arg].filename)

C8_Witness ==
    /\ response.route = "download_file"
    /\ response.code = 200

\* C9: /download with a missing or empty url answers HTTP 400, issues no
\* download_id, starts no worker and leaves the registry unchanged.
C9_MissingUrlRejected ==
    [][(response'.route = "download" /\ ~Truthy(response'.arg)) =>
          /\ response'.code = 400
          /\ "download_id" \notin DOMAIN response'.body
          /\ threads' = threads
          /\ download_progress' = download_progress]_vars

C9_Witness ==
    /\ response.route = "download"
    /\ response.arg = ""
    /\ response.code = 400
    /\ download_progress # EmptyDict

\* C10: /get_video_info, whether the metadata fetch succeeds or raises
\* (HTTP 400 with the message), leaves the registry unchanged and starts no
\* worker.
C10_InfoLeavesRegistry ==
    [][response'.route = "get_video_info" =>
          /\ download_progress' = download_progress
          /\ threads' = threads
          /\ response'.code \in {200, 400}
          /\ response'.code = 400 <=> "error" \in DOMAIN response'.body]_vars

C10_Witness ==
    /\ response.route = "get_video_info"
    /\ response.code = 400
    /\ response.body.error \in ErrorMessages
    /\ download_progress # EmptyDict

\* C11: when the collaborator's call raises, the worker ends with the
\* job's record at status = "error" and error = the exception's message.
C11_RaiseEndsInError ==
    [][\A t \in DOMAIN threads :
          (At(t, "l58") /\ threads'[t].pc = "done") =>
              LET record == download_progress'[threads[t].download_id]
              IN  /\ record.status = "error"
                  /\ DictGet(record, "error", None) = threads[t].e]_vars

\* C12: a job whose worker has ended (the collaborator's call returned or
\* raised) has a terminal status.
C12_EndedJobsAreTerminal ==
    \A t \in DOMAIN threads :
        threads[t].pc = "done" =>
            download_progress[threads[t].download_id].status \in {"completed", "error"}

\* the heights of the descriptors of fs that have container mp4 and a
\* height
QualifyingHeights(fs) ==
    { fs[i].height : i \in { j \in DOMAIN fs : /\ "ext" \in DOMAIN fs[j]
                                                /\ fs[j].ext = "mp4"
                                                /\ "height" \in DOMAIN fs[j] } }

\* C13: the catalog /get_video_info answers with has exactly one entry
\* {height, "<height>p"} for each distinct height among the descriptors
\* with container mp4 and a height, no other entry, in strictly descending
\* order of height; it is empty when no descriptor qualifies.
C13_CatalogPerDistinctHeight ==
    (response.route = "get_video_info" /\ response.code = 200) =>
        LET fs == DictGet(extract_info, "formats", <<>>)
            out == response.body.formats
        IN  /\ { out[i].height : i \in DOMAIN out } = QualifyingHeights(fs)
            /\ Len(out) = Cardinality(QualifyingHeights(fs))
            /\ \A i \in DOMAIN out :
                  out[i] = [height |-> out[i].height, quality |-> str(out[i].height) \o "p"]
            /\ \A i \in 1..(Len(out) - 1) : out[i].height > out[i + 1].height

\* the catalog of mp4 descriptors of heights 720, 1080, 720, 480 is being
\* sent: 1080p, 720p, 480p
C13_Witness ==
    /\ response.route = "get_video_info"
    /\ response.code = 200
    /\ "formats" \in DOMAIN extract_info
    /\ extract_info.formats = << [ext |-> "mp4", height |-> 720], [ext |-> "mp4", height |-> 1080],
                                 [ext |-> "mp4", height |-> 720], [ext |-> "mp4", height |-> 480] >>
    /\ response.body.formats = << [height |-> 1080, quality |-> "1080p"],
                                  [height |-> 720, quality |-> "720p"],
                                  [height |-> 480, quality |-> "480p"] >>

\* C14: the worker hands the collaborator "best[ext=mp4]" for the token
\* best, "worst[ext=mp4]" for worst and "best[height<=h][ext=mp4]" with h
\* verbatim for any other token h; no token makes the worker fail before
\* the call, whether the video has that height or h is a height at all.
C14_SelectorMapsEveryToken ==
    \A t \in DOMAIN threads :
        At(t, "l53") =>
            LET quality == threads[t].quality
            IN  /\ threads[t].e = None
                /\ quality = "best" => threads[t].format = "best[ext=mp4]"
                /\ quality = "worst" => threads[t].format = "worst[ext=mp4]"
                /\ quality = "720" => threads[t].format = "best[height<=720][ext=mp4]"
                /\ quality = "4320" => threads[t].format = "best[height<=4320][ext=mp4]"
                /\ quality = "hd" => threads[t].format = "best[height<=hd][ext=mp4]"
                /\ quality \in SelectorQualities \cup PostedQualities

\* a worker is about to call the collaborator with the selector of a
\* token that is no height
C14_Witness ==
    \E t \in DOMAIN threads :
        /\ At(t, "l53")
        /\ threads[t].quality = "hd"
        /\ threads[t].format = "best[height<=hd][ext=mp4]"

\* C15 as stated: while a record's status stays "downloading" its progress
\* never decreases.
C15_ProgressMonotone ==
    [][\A id \in DOMAIN download_progress :
          (/\ download_progress[id].status = "downloading"
           /\ download_progress'[id].status = "downloading") =>
              download_progress'[id].progress >= download_progress[id].progress]_vars

\* the percentages a 'downloading' event reports, in tenths of a percent:
\* the ratio of its byte counts to the nearest tenth when it has both and
\* a total that is not 0, else the number its percent string holds
Reports(d) ==
    IF "total_bytes" \in DOMAIN d /\ d["total_bytes"] # 0
    THEN IF "downloaded_bytes" \in DOMAIN d
         THEN LET below == (Hundred * d["downloaded_bytes"]) \div d["total_bytes"]
              IN  { p \in {below, below + 1} :
                      /\ (2 * p - 1) * d["total_bytes"] <= 2 * Hundred * d["downloaded_bytes"]
                      /\ 2 * Hundred * d["downloaded_bytes"] <= (2 * p + 1) * d["total_bytes"] }
         ELSE {}
    ELSE IF "_percent_str" \in DOMAIN d /\ float(replace(d["_percent_str"], "%")).ok
         THEN { float(replace(d["_percent_str"], "%")).value }
         ELSE {}

\* C15, amended: while a record's status is "downloading", a 'downloading'
\* event that changes the record changes only its progress, to the
\* percentage that event reports, whether higher or lower than the one
\* stored.
C15_ProgressFollowsReports ==
    [][\A t \in DOMAIN threads, d \in DownloadingEvents :
          (/\ download_progress' # download_progress
           /\ At(t, "call")
           /\ download_progress[threads[t].download_id].status = "downloading"
           /\ event_downloading(t, d)) =>
              LET id == threads[t].download_id
              IN  /\ download_progress'[id].progress \in Reports(d)
                  /\ download_progress' =
                         SetItem(download_progress, id,
                             SetItem(download_progress[id], "progress",
                                 download_progress'[id].progress))]_vars

\* a job at status "downloading" whose collaborator may report again has
\* the progress an event reported, above 100 percent
C15_Witness ==
    \E t \in DOMAIN threads :
        /\ At(t, "call")
        /\ download_progress[threads[t].download_id].status = "downloading"
        /\ download_progress[threads[t].download_id].progress > Hundred

\* C16: a record has a filename that is not empty only if its status is
\* "completed".
C16_FilenameOnlyWhenCompleted ==
    \A id \in DOMAIN download_progress :
        download_progress[id].filename # "" => download_progress[id].status = "completed"

\* the 'downloading' events with no total size that is not 0 and a percent
\* string that holds no number
UnusableEvents ==
    { d \in DownloadingEvents :
        /\ "total_bytes" \in DOMAIN d => d["total_bytes"] = 0
        /\ "_percent_str" \in DOMAIN d
        /\ d["_percent_str"] = <<"N", "/", "A">> }

\* C17: a 'downloading' event with no usable total size and a percent
\* string that cannot be parsed changes neither the registry nor the
\* worker, which stays in the collaborator's call for the next event.
C17_UnusableEventIgnored ==
    [][\A t \in DOMAIN threads, d \in UnusableEvents :
          (At(t, "call") /\ response' = response /\ event_downloading(t, d)) =>
              /\ download_progress' = download_progress
              /\ threads' = threads]_vars

\* a job that has taken usable events is in the collaborator's call, where
\* an unusable one may come next
C17_Witness ==
    \E t \in DOMAIN threads :
        /\ At(t, "call")
        /\ download_progress[threads[t].download_id].status = "downloading"
        /\ download_progress[threads[t].download_id].progress = Hundred \div 2
        /\ \E d \in UnusableEvents : ENABLED event_downloading(t, d)

\* C18: no 'downloading' event, whatever optional fields it has, takes the
\* worker to its except block, where the job's status becomes "error".
C18_EventsNeverFailJob ==
    [][\A t \in DOMAIN threads, d \in DownloadingEvents :
          event_downloading(t, d) => threads'[t].pc = "call"]_vars

\* C19: of the workers with one download_id at most one has written the
\* record stored under it.
C19_SingleWriter ==
    \A t1, t2 \in DOMAIN threads :
        (t1 # t2 /\ threads[t1].download_id = threads[t2].download_id) =>
            threads[t1].pc = "l21" \/ threads[t2].pc = "l21"

\* C20: no step removes a record from the registry, and /progress for an
\* id the registry holds never answers not_found.
C20_RecordsNeverRemoved ==
    [][/\ \A id \in DOMAIN download_progress : id \in DOMAIN download_progress'
       /\ (response'.route = "progress" /\ response'.arg \in DOMAIN download_progress) =>
              response'.body.status # "not_found"]_vars

\* /progress answers for a job whose worker ended, after the job's file
\* has been served
C20_Witness ==
    /\ response.route = "progress"
    /\ response.arg \in DOMAIN download_progress
    /\ response.body.status = "completed"
    /\ \A t \in DOMAIN threads : threads[t].pc = "done"
    /\ disk # {}

\* C21: every answer of /progress with status "completed" has progress
\* 100, whenever the poll comes while or after the worker handles the
\* 'finished' event.
C21_CompletedMeansHundred ==
    (response.route = "progress" /\ response.body.status = "completed") =>
        response.body.progress = Hundred

\* C22: no two jobs have the same stored filename, so that the file
\* /download_file serves for a job is the one its own worker produced.
C22_FilenamesNotShared ==
    \A id1, id2 \in DOMAIN download_progress :
        (id1 # id2 /\ download_progress[id1].filename # "") =>
            download_progress[id1].filename # download_progress[id2].filename

====
